---- MODULE Spec2Model ----
(***************************************************************************)
(* dinnercaster3-aws, src/main.py: the tool function dinnercaster and the  *)
(* request shim lambda_handler, which validates the event's body and       *)
(* delegates to the external dispatcher mcp.handle_request.                *)
(*                                                                         *)
(* Text is a sequence of code points, bytes a sequence of byte values.     *)
(* json.loads and bytes.decode('utf-8') are modelled by what the Python    *)
(* runtime does on the model's alphabets: whitespace, strings and arrays   *)
(* and integers of the digit 1 for JSON (no braces, commas or backslashes   *)
(* occur in the alphabet), and strict UTF-8 for decoding.  RecursionLimit stands for the interpreter's *)
(* recursion limit (1000 by default), scaled to the model's text lengths.  *)
(***************************************************************************)
EXTENDS Integers, Sequences, FiniteSets, TLC

\* Longest body (characters or bytes) an event carries in the model.
MaxLen == 4
\* Deepest nesting of arrays json.loads descends into before RecursionError.
RecursionLimit == 2
\* The calls of dinnercaster the model follows.
MaxToolCalls == 2
\* body[:100] in the details of the 400 responses.
PreviewLen == 100

\* The code points the model's alphabets are built from.
ord == [BEL |-> 7, TAB |-> 9, QUOTE |-> 34, COMMA |-> 44, ONE |-> 49,
        NINE |-> 57, LBRACKET |-> 91, RBRACKET |-> 93, EACUTE |-> 233,
        BOM |-> 65279]

\* Characters of str bodies: a forbidden control character, an allowed one,
\* the JSON string and array delimiters, a digit, and one non-ASCII character.
StrAlphabet ==
    {ord.BEL, ord.TAB, ord.QUOTE, ord.ONE, ord.LBRACKET, ord.RBRACKET, ord.EACUTE}
\* Bytes of bytes bodies: ASCII ones of the above, and 0xC3 0xA9, which is the
\* UTF-8 encoding of U+00E9 in this order and invalid UTF-8 in any other.
ByteAlphabet ==
    {ord.BEL, ord.TAB, ord.QUOTE, ord.LBRACKET, ord.RBRACKET, 195, 169}

SeqsUpTo(A, n) == UNION {[1..k -> A] : k \in 0..n}

Min(a, b) == IF a <= b THEN a ELSE b
\* s[:n]
Take(s, n) == SubSeq(s, 1, Min(Len(s), n))

-----------------------------------------------------------------------------
(* Values the handler sees and produces *)

\* event.get('body'): the key may be missing, or hold None, a str, bytes, or
\* anything else (an already parsed mapping, a number).
PyBody(type, val) == [type |-> type, val |-> val]
Bodies ==
    {PyBody(t, <<>>) : t \in {"absent", "NoneType", "dict", "int"}}
    \cup {PyBody("str", s) : s \in SeqsUpTo(StrAlphabet, MaxLen)}
    \cup {PyBody("bytes", b) : b \in SeqsUpTo(ByteAlphabet, MaxLen)}

\* The event the host delivers: a mapping with transport metadata and an
\* optional body, or (the host deserialises any JSON payload) not a mapping.
HttpMethods == {"GET", "POST"}
Events ==
    [pytype : {"dict"}, httpMethod : HttpMethods, body : Bodies]
    \cup {[pytype |-> "list", httpMethod |-> "", body |-> PyBody("absent", <<>>)]}
Contexts == {"ctx1", "ctx2"}

\* The arguments of an f-string of the handler: its template, str(e), len(body)
\* and repr(body[:100]).
Details(fmt, msg, length, preview) ==
    [fmt |-> fmt, msg |-> msg, length |-> length, preview |-> preview]
NoDetails == Details("", "", 0, <<>>)
\* {'statusCode': ..., 'body': json.dumps({...})}; a dispatcher response's body
\* is the JSON-RPC text it serialised.
Response(statusCode, error, details, jsonrpc) ==
    [statusCode |-> statusCode,
     body |-> [error |-> error, details |-> details, jsonrpc |-> jsonrpc]]
NoResponse == Response(0, "", NoDetails, "")
PyException(cls, msg) == [cls |-> cls, msg |-> msg]
NoException == PyException("", "")

\* How a call ends: it returns a response or raises an exception.
Returns(r) == [kind |-> "return", response |-> r, exc |-> NoException]
Raises(e) == [kind |-> "raise", response |-> NoResponse, exc |-> e]
NoOutcome == [kind |-> "none", response |-> NoResponse, exc |-> NoException]

\* Classes deriving from Exception; SystemExit, KeyboardInterrupt and
\* GeneratorExit derive from BaseException only.
ExceptionClasses ==
    {"AttributeError", "JSONDecodeError", "UnicodeDecodeError", "RecursionError",
     "RuntimeError"}
IsInstanceOfException(e) == e.cls \in ExceptionClasses

-----------------------------------------------------------------------------
(* dinnercaster *)

\* Mutant: another dish.
dinnercaster_pizza == "Pizza"

dinnercaster == "Tacos"

-----------------------------------------------------------------------------
(* any(ord(c) < 32 and c not in '\t\n\r' for c in body) *)

\* Mutant: tab, newline and carriage return are not exempted.
HasControlChars_no_exemption(s) ==
    \E i \in 1..Len(s) : s[i] < 32

HasControlChars(s) ==
    \E i \in 1..Len(s) : s[i] < 32 /\ s[i] \notin {9, 10, 13}

-----------------------------------------------------------------------------
(* json.loads(s) on a str, as far as the handler observes it: it returns, or  *)
(* raises JSONDecodeError or RecursionError.  A scan result is "ok" with the  *)
(* index after the value, "StopIteration", or the exception raised.           *)

ScanOk(end) == [tag |-> "ok", end |-> end, msg |-> ""]
ScanRaise(cls, msg) == [tag |-> cls, end |-> 0, msg |-> msg]
StopIteration == ScanRaise("StopIteration", "")

IsWhitespace(c) == c \in {32, 9, 10, 13}

RECURSIVE SkipWhitespace(_, _)
SkipWhitespace(s, idx) ==
    IF idx <= Len(s) /\ IsWhitespace(s[idx])
    THEN SkipWhitespace(s, idx + 1)
    ELSE idx

\* scanstring, strict: idx is the index after the opening quote.
RECURSIVE scanstring(_, _)
scanstring(s, idx) ==
    IF idx > Len(s)
    THEN ScanRaise("JSONDecodeError", "Unterminated string starting at")
    ELSE IF s[idx] = ord.QUOTE THEN ScanOk(idx + 1)
    ELSE IF s[idx] < 32
    THEN ScanRaise("JSONDecodeError", "Invalid control character at")
    ELSE scanstring(s, idx + 1)

\* The integer part [1-9]\d* of a number: idx is the index after its first digit.
RECURSIVE match_number(_, _)
match_number(s, idx) ==
    IF idx <= Len(s) /\ s[idx] >= 48 /\ s[idx] <= ord.NINE
    THEN match_number(s, idx + 1)
    ELSE ScanOk(idx)

RECURSIVE scan_once(_, _, _)
RECURSIVE parse_array(_, _, _)
RECURSIVE array_items(_, _, _)

\* One value starting at idx; depth counts the arrays entered so far.
scan_once(s, idx, depth) ==
    IF idx > Len(s) THEN StopIteration
    ELSE IF s[idx] = ord.QUOTE THEN scanstring(s, idx + 1)
    ELSE IF s[idx] = ord.LBRACKET THEN parse_array(s, idx + 1, depth + 1)
    ELSE IF s[idx] >= ord.ONE /\ s[idx] <= ord.NINE THEN match_number(s, idx + 1)
    ELSE StopIteration

\* idx is the index after '['.
parse_array(s, idx, depth) ==
    IF depth > RecursionLimit
    THEN ScanRaise("RecursionError",
                   "maximum recursion depth exceeded while decoding a JSON array")
    ELSE LET i == SkipWhitespace(s, idx) IN
         IF i <= Len(s) /\ s[i] = ord.RBRACKET
         THEN ScanOk(i + 1)
         ELSE array_items(s, i, depth)

array_items(s, idx, depth) ==
    LET v == scan_once(s, idx, depth) IN
    IF v.tag = "StopIteration" THEN ScanRaise("JSONDecodeError", "Expecting value")
    ELSE IF v.tag # "ok" THEN v
    ELSE LET i == SkipWhitespace(s, v.end) IN
         IF i <= Len(s) /\ s[i] = ord.RBRACKET THEN ScanOk(i + 1)
         ELSE IF i <= Len(s) /\ s[i] = ord.COMMA
         THEN array_items(s, SkipWhitespace(s, i + 1), depth)
         ELSE ScanRaise("JSONDecodeError", "Expecting ',' delimiter")

json_loads(s) ==
    IF Len(s) > 0 /\ s[1] = ord.BOM
    THEN ScanRaise("JSONDecodeError", "Unexpected UTF-8 BOM (decode using utf-8-sig)")
    ELSE LET v == scan_once(s, SkipWhitespace(s, 1), 0) IN
         IF v.tag = "StopIteration"
         THEN ScanRaise("JSONDecodeError", "Expecting value")
         ELSE IF v.tag # "ok" THEN v
         ELSE IF SkipWhitespace(s, v.end) # Len(s) + 1
         THEN ScanRaise("JSONDecodeError", "Extra data")
         ELSE v

-----------------------------------------------------------------------------
(* body.decode('utf-8'), strict: the decoded text, or UnicodeDecodeError *)

Decoded(text) == [tag |-> "ok", text |-> text, msg |-> ""]
DecodeError(msg) == [tag |-> "UnicodeDecodeError", text |-> <<>>, msg |-> msg]

IsContinuation(b, i, lo, hi) == i <= Len(b) /\ lo <= b[i] /\ b[i] <= hi

RECURSIVE decode_from(_, _, _)
decode_from(b, i, text) ==
    IF i > Len(b) THEN Decoded(text)
    ELSE LET c == b[i]
             \* the second byte's range excludes overlong forms and surrogates
             lo2 == IF c = 224 THEN 160 ELSE IF c = 240 THEN 144 ELSE 128
             hi2 == IF c = 237 THEN 159 ELSE IF c = 244 THEN 143 ELSE 191
             n == IF c < 128 THEN 1 ELSE IF c >= 194 /\ c <= 223 THEN 2
                  ELSE IF c >= 224 /\ c <= 239 THEN 3
                  ELSE IF c >= 240 /\ c <= 244 THEN 4 ELSE 0
         IN
         IF n = 0 THEN DecodeError("invalid start byte")
         ELSE IF n = 1 THEN decode_from(b, i + 1, Append(text, c))
         ELSE IF i + n - 1 > Len(b)
                 /\ (i + 1 > Len(b) \/ IsContinuation(b, i + 1, lo2, hi2))
                 /\ (i + 2 > Len(b) \/ IsContinuation(b, i + 2, 128, 191))
         THEN DecodeError("unexpected end of data")
         ELSE IF ~IsContinuation(b, i + 1, lo2, hi2)
                 \/ (n >= 3 /\ ~IsContinuation(b, i + 2, 128, 191))
                 \/ (n = 4 /\ ~IsContinuation(b, i + 3, 128, 191))
         THEN DecodeError("invalid continuation byte")
         ELSE IF n = 2
         THEN decode_from(b, i + 2, Append(text, (c - 192) * 64 + (b[i + 1] - 128)))
         ELSE IF n = 3
         THEN decode_from(b, i + 3,
                  Append(text, (c - 224) * 4096 + (b[i + 1] - 128) * 64 + (b[i + 2] - 128)))
         ELSE decode_from(b, i + 4,
                  Append(text, (c - 240) * 262144 + (b[i + 1] - 128) * 4096
                               + (b[i + 2] - 128) * 64 + (b[i + 3] - 128)))

decode_utf8(b) == decode_from(b, 1, <<>>)

-----------------------------------------------------------------------------
(* mcp.handle_request(event, context): the external dispatcher.  It returns   *)
(* a response of its own or raises; what it does is its choice.               *)

DispatcherResponses ==
    {Response(200, "", NoDetails, "{\"jsonrpc\": \"2.0\", \"result\": ...}"),
     Response(400, "", NoDetails, "{\"jsonrpc\": \"2.0\", \"error\": ...}")}
DispatcherRaises ==
    {PyException("RuntimeError", "dispatcher failed"),
     PyException("SystemExit", "1")}
DispatcherResults ==
    {Returns(r) : r \in DispatcherResponses} \cup {Raises(e) : e \in DispatcherRaises}

-----------------------------------------------------------------------------
(* lambda_handler(event, context).  A run of the handler yields the event as  *)
(* the handler leaves it, the calls it made to the dispatcher, and how it     *)
(* ended.  disp is what the dispatcher does if it is called.                  *)

Run(ev, calls, outcome) == [event |-> ev, calls |-> calls, outcome |-> outcome]

BadRequest(error, details) == Returns(Response(400, error, details, ""))

\* return mcp.handle_request(event, context)
handle_request(ev, ctx, disp) ==
    Run(ev, <<[event |-> ev, context |-> ctx, result |-> disp]>>, disp)

\* The 400 of a str body with control characters.
control_chars_in_str(ev, body) ==
    Run(ev, <<>>,
        BadRequest("Request body contains invalid control characters",
                   Details("Body length: {}, first 100 chars: {}", "",
                           Len(body), Take(body, PreviewLen))))

\* except json.JSONDecodeError as e, around json.loads(body) of a str body.
except_JSONDecodeError(ev, body, e) ==
    IF e.cls = "JSONDecodeError"
    THEN Run(ev, <<>>,
             BadRequest("Invalid JSON in request body",
                        Details("{}, body preview: {}", e.msg,
                                0, Take(body, PreviewLen))))
    ELSE Run(ev, <<>>, Raises(e))

\* Mutant: the JSON parse is tried before the control-character check.
validate_str_parse_first(ev, ctx, disp) ==
    LET body == ev.body.val
        parsed == json_loads(body) IN
    IF parsed.tag # "ok"
    THEN except_JSONDecodeError(ev, body, PyException(parsed.tag, parsed.msg))
    ELSE IF HasControlChars(body)
    THEN control_chars_in_str(ev, body)
    ELSE handle_request(ev, ctx, disp)

\* if isinstance(body, str): ...
validate_str(ev, ctx, disp) ==
    LET body == ev.body.val
        parsed == json_loads(body) IN
    IF HasControlChars(body)
    THEN control_chars_in_str(ev, body)
    ELSE IF parsed.tag # "ok"
    THEN except_JSONDecodeError(ev, body, PyException(parsed.tag, parsed.msg))
    ELSE handle_request(ev, ctx, disp)

\* Mutant: the assignment is forgotten and the bytes body is dispatched.
set_body_forgotten(ev, body_str) == ev

\* event['body'] = body_str
set_body(ev, body_str) == [ev EXCEPT !.body = PyBody("str", body_str)]

\* The 400 of a bytes body whose decoded text has control characters.
control_chars_in_bytes(ev, body_str) ==
    Run(ev, <<>>,
        BadRequest("Decoded request body contains invalid control characters",
                   Details("Body length: {}, first 100 chars: {}", "",
                           Len(body_str), Take(body_str, PreviewLen))))

\* Mutant: only json.JSONDecodeError is caught around the decoding.
except_decode_errors_json_only(ev, body, e) ==
    IF e.cls = "JSONDecodeError"
    THEN Run(ev, <<>>,
             BadRequest("Invalid request body format",
                        Details("{}, raw body preview: {}", e.msg,
                                0, Take(body, PreviewLen))))
    ELSE Run(ev, <<>>, Raises(e))

\* except (UnicodeDecodeError, json.JSONDecodeError) as e, around the bytes branch.
except_decode_errors(ev, body, e) ==
    IF e.cls \in {"UnicodeDecodeError", "JSONDecodeError"}
    THEN Run(ev, <<>>,
             BadRequest("Invalid request body format",
                        Details("{}, raw body preview: {}", e.msg,
                                0, Take(body, PreviewLen))))
    ELSE Run(ev, <<>>, Raises(e))

\* Mutant: the event's body is replaced as soon as it is decoded, before the
\* decoded text is validated.
validate_bytes_replace_first(ev, ctx, disp) ==
    LET body == ev.body.val
        decoded == decode_utf8(body)
        body_str == decoded.text
        parsed == json_loads(body_str)
        replaced == set_body(ev, body_str) IN
    IF decoded.tag # "ok"
    THEN except_decode_errors(ev, body, PyException(decoded.tag, decoded.msg))
    ELSE IF HasControlChars(body_str)
    THEN control_chars_in_bytes(replaced, body_str)
    ELSE IF parsed.tag # "ok"
    THEN except_decode_errors(replaced, body, PyException(parsed.tag, parsed.msg))
    ELSE handle_request(replaced, ctx, disp)

\* elif isinstance(body, bytes): ...
validate_bytes(ev, ctx, disp) ==
    LET body == ev.body.val
        decoded == decode_utf8(body)
        body_str == decoded.text
        parsed == json_loads(body_str) IN
    IF decoded.tag # "ok"
    THEN except_decode_errors(ev, body, PyException(decoded.tag, decoded.msg))
    ELSE IF HasControlChars(body_str)
    THEN control_chars_in_bytes(ev, body_str)
    ELSE IF parsed.tag # "ok"
    THEN except_decode_errors(ev, body, PyException(parsed.tag, parsed.msg))
    ELSE handle_request(set_body(ev, body_str), ctx, disp)

\* event.get('body') on an event that is no mapping.
no_attribute_get(ev) ==
    Run(ev, <<>>,
        Raises(PyException("AttributeError", "'list' object has no attribute 'get'")))

\* Mutant: a body that is neither str nor bytes is rejected.
try_body_rejects_other(ev, ctx, disp) ==
    IF ev.pytype # "dict" THEN no_attribute_get(ev)
    ELSE IF ev.body.type \in {"absent", "NoneType"}
    THEN handle_request(ev, ctx, disp)
    ELSE IF ev.body.type = "str" THEN validate_str(ev, ctx, disp)
    ELSE IF ev.body.type = "bytes" THEN validate_bytes(ev, ctx, disp)
    ELSE Run(ev, <<>>, BadRequest("Invalid request body format", NoDetails))

\* The body of the try statement.
try_body(ev, ctx, disp) ==
    IF ev.pytype # "dict" THEN no_attribute_get(ev)
    ELSE IF ev.body.type \in {"absent", "NoneType"}
    THEN handle_request(ev, ctx, disp)
    ELSE IF ev.body.type = "str" THEN validate_str(ev, ctx, disp)
    ELSE IF ev.body.type = "bytes" THEN validate_bytes(ev, ctx, disp)
    ELSE handle_request(ev, ctx, disp)

\* Mutant: no except clause; every exception propagates.
except_nothing(run) == run

\* except Exception as e: return {'statusCode': 500, ...}
except_Exception(run) ==
    IF run.outcome.kind = "raise" /\ IsInstanceOfException(run.outcome.exc)
    THEN [run EXCEPT !.outcome =
              Returns(Response(500, "Internal server error",
                               Details("{}", run.outcome.exc.msg, 0, <<>>), ""))]
    ELSE run

lambda_handler(ev, ctx, disp) == except_Exception(try_body(ev, ctx, disp))

-----------------------------------------------------------------------------
(* The process: the host runtime delivers one invocation at a time; between   *)
(* invocations nothing of an invocation is kept.                              *)

VARIABLES
    phase,       \* "idle", "pending" (an invocation is delivered), "returned"
    delivered,   \* the event as the host delivered it
    event,       \* the event object, which the handler may update in place
    context,     \* the context object of the invocation
    calls,       \* the calls of this invocation to mcp.handle_request
    tried,       \* how the try body ended, before the except clause
    outcome,     \* how lambda_handler ended
    toolCalls,   \* the calls of dinnercaster so far
    toolResult   \* what the last call of dinnercaster returned ("" before any)

vars == <<phase, delivered, event, context, calls, tried, outcome, toolCalls, toolResult>>
invocation == <<phase, delivered, event, context, calls, tried, outcome>>

NoEvent == [pytype |-> "", httpMethod |-> "", body |-> PyBody("absent", <<>>)]

Init ==
    /\ phase = "idle"
    /\ delivered = NoEvent
    /\ event = NoEvent
    /\ context = ""
    /\ calls = <<>>
    /\ tried = NoOutcome
    /\ outcome = NoOutcome
    /\ toolCalls = 0
    /\ toolResult = ""

\* The host runtime invokes the function with an event and a context.
HostInvoke ==
    /\ phase = "idle"
    /\ \E ev \in Events, ctx \in Contexts :
        /\ delivered' = ev
        /\ event' = ev
        /\ context' = ctx
    /\ phase' = "pending"
    /\ UNCHANGED <<calls, tried, outcome, toolCalls, toolResult>>

\* lambda_handler runs from its first statement to its return or raise.
LambdaHandler ==
    /\ phase = "pending"
    /\ \E disp \in DispatcherResults :
        LET run == lambda_handler(event, context, disp) IN
        /\ event' = run.event
        /\ calls' = run.calls
        /\ outcome' = run.outcome
        /\ tried' = try_body(event, context, disp).outcome
    /\ phase' = "returned"
    /\ UNCHANGED <<delivered, context, toolCalls, toolResult>>

\* The host takes the result; event, context and response are dropped.
HostCollect ==
    /\ phase = "returned"
    /\ phase' = "idle"
    /\ delivered' = NoEvent
    /\ event' = NoEvent
    /\ context' = ""
    /\ calls' = <<>>
    /\ tried' = NoOutcome
    /\ outcome' = NoOutcome
    /\ UNCHANGED <<toolCalls, toolResult>>

\* A call of the tool function, at any time.
Dinnercaster ==
    /\ toolCalls < MaxToolCalls
    /\ toolCalls' = toolCalls + 1
    /\ toolResult' = dinnercaster
    /\ UNCHANGED invocation

Next == HostInvoke \/ LambdaHandler \/ HostCollect \/ Dinnercaster

Spec == Init /\ [][Next]_vars

-----------------------------------------------------------------------------
(* Vocabulary of the properties *)

\* A character with code point < 32 other than tab, newline, carriage return.
Forbidden(c) == c < 32 /\ c # 9 /\ c # 10 /\ c # 13
ContainsForbidden(s) == \E i \in 1..Len(s) : Forbidden(s[i])
WithoutForbidden(s) == SelectSeq(s, LAMBDA c : ~Forbidden(c))
\* The text parses as JSON: json.loads returns.
ParsesAsJSON(s) == json_loads(s).tag = "ok"
DecodesAsUTF8(b) == decode_utf8(b).tag = "ok"

Returned == phase = "returned"
BodyIs(type) == delivered.pytype = "dict" /\ delivered.body.type = type
BodyAbsent == BodyIs("absent") \/ BodyIs("NoneType")
\* The handler returned a response with this status and error.
ReturnedError(status, error) ==
    /\ outcome.kind = "return"
    /\ outcome.response.statusCode = status
    /\ outcome.response.body.error = error
\* The error texts of the handler's own 400 responses.
ValidationErrors ==
    {"Request body contains invalid control characters",
     "Invalid JSON in request body",
     "Decoded request body contains invalid control characters",
     "Invalid request body format"}
Local400 == \E error \in ValidationErrors : ReturnedError(400, error)
\* The dispatcher was called exactly once, with this event and the context.
DispatchedOnceWith(ev) ==
    /\ Len(calls) = 1
    /\ calls[1].event = ev
    /\ calls[1].context = context
\* What the dispatcher returned is what the handler returned.
PassedThrough == calls[1].result.kind = "return" => outcome = calls[1].result

-----------------------------------------------------------------------------
\* The bodies C1 is about.
C1_Precondition ==
    \/ BodyAbsent
    \/ /\ BodyIs("str")
       /\ ~ContainsForbidden(delivered.body.val)
       /\ ParsesAsJSON(delivered.body.val)
\* C1: an event whose body is absent or None, or a str without forbidden
\* control characters that parses as JSON, is passed to the dispatcher exactly
\* once, unmodified and with the same context, and a response the dispatcher
\* returns is returned verbatim.
C1_DelegatesUnmodified ==
    Returned /\ C1_Precondition
        => DispatchedOnceWith(delivered) /\ event = delivered /\ PassedThrough
\* A str body with an allowed control character (a tab) was dispatched and the
\* dispatcher's response came back.
C1_Witness ==
    /\ Returned /\ BodyIs("str") /\ C1_Precondition
    /\ \E i \in 1..Len(delivered.body.val) : delivered.body.val[i] = ord.TAB
    /\ Len(calls) = 1 /\ calls[1].result.kind = "return"
    /\ outcome = calls[1].result

\* C2: a str body with a forbidden control character is answered 400,
\* "Request body contains invalid control characters", whatever the rest of
\* the body is.
C2_ControlCharsRejected ==
    Returned /\ BodyIs("str") /\ ContainsForbidden(delivered.body.val)
        => ReturnedError(400, "Request body contains invalid control characters")
\* Such a body whose other characters are valid JSON was rejected.
C2_Witness ==
    /\ Returned /\ BodyIs("str") /\ ContainsForbidden(delivered.body.val)
    /\ ParsesAsJSON(WithoutForbidden(delivered.body.val))
    /\ ReturnedError(400, "Request body contains invalid control characters")

\* C3 (as claimed): a str body without forbidden control characters that does
\* not parse as JSON is answered 400, "Invalid JSON in request body".
C3_InvalidJSONRejected ==
    Returned /\ BodyIs("str") /\ ~ContainsForbidden(delivered.body.val)
             /\ ~ParsesAsJSON(delivered.body.val)
        => ReturnedError(400, "Invalid JSON in request body")

\* C4: a bytes body that is not valid UTF-8 is answered 400,
\* "Invalid request body format".
C4_UndecodableRejected ==
    Returned /\ BodyIs("bytes") /\ ~DecodesAsUTF8(delivered.body.val)
        => ReturnedError(400, "Invalid request body format")
\* A body ending in the middle of a two-byte sequence was rejected.
C4_Witness ==
    /\ Returned /\ BodyIs("bytes")
    /\ Len(delivered.body.val) > 1
    /\ delivered.body.val[Len(delivered.body.val)] = 195
    /\ ReturnedError(400, "Invalid request body format")

\* The delivered body is bytes that decode as UTF-8, and the decoded text.
C5_Decodes == BodyIs("bytes") /\ DecodesAsUTF8(delivered.body.val)
C5_Text == decode_utf8(delivered.body.val).text
\* C5: a bytes body that decodes as UTF-8 to text that parses as JSON is
\* replaced in the event by the decoded str; the dispatcher gets that event,
\* whose other fields are those delivered.
C5_BodyReplaced ==
    Returned /\ C5_Decodes /\ ParsesAsJSON(C5_Text)
        => /\ event = [delivered EXCEPT !.body = PyBody("str", C5_Text)]
           /\ DispatchedOnceWith(event)
\* A body with a two-byte character was decoded to a shorter str and dispatched.
C5_Witness ==
    /\ Returned /\ C5_Decodes /\ ParsesAsJSON(C5_Text)
    /\ Len(C5_Text) < Len(delivered.body.val)
    /\ Len(calls) = 1 /\ calls[1].event.body = PyBody("str", C5_Text)

C6_ExceptionDerived ==
    {"AttributeError", "JSONDecodeError", "UnicodeDecodeError", "RecursionError",
     "RuntimeError"}
C7_Vocabulary == {"Tacos"}
C8_AsStr ==
    lambda_handler([delivered EXCEPT !.body = PyBody("str", C5_Text)], context,
                   IF calls = <<>> THEN NoOutcome ELSE calls[1].result)
\* C8 (as claimed): a bytes body that decodes as UTF-8 is answered 400 exactly
\* when the decoded text has a forbidden control character or does not parse
\* as JSON, and is dispatched otherwise; the decision and the status are those
\* of the same text delivered as a str body.
C8_DecodedValidatedAsText ==
    Returned /\ C5_Decodes =>
        /\ Local400 <=> ContainsForbidden(C5_Text) \/ ~ParsesAsJSON(C5_Text)
        /\ ~Local400 <=> Len(calls) = 1
        /\ (calls = <<>>) <=> (C8_AsStr.calls = <<>>)
        /\ outcome.kind = C8_AsStr.outcome.kind
        /\ outcome.response.statusCode = C8_AsStr.outcome.response.statusCode

\* The validation of the delivered body found nothing to reject.
C9_ValidationPassed ==
    CASE delivered.body.type = "str" ->
            /\ ~ContainsForbidden(delivered.body.val)
            /\ ParsesAsJSON(delivered.body.val)
      [] delivered.body.type = "bytes" ->
            /\ DecodesAsUTF8(delivered.body.val)
            /\ ~ContainsForbidden(C5_Text)
            /\ ParsesAsJSON(C5_Text)
      [] OTHER -> TRUE
\* C9: an invocation answered with one of the handler's own 400 responses
\* made no call to the dispatcher and left the event as delivered; no
\* invocation calls the dispatcher twice, and one that calls it had no body, or
\* a body on which the validation (of a str, of bytes) passed.
C9_NoDispatchOnRejection ==
    Returned =>
        /\ Local400 => calls = <<>> /\ event = delivered
        /\ Len(calls) <= 1
        /\ calls # <<>> => delivered.pytype = "dict" /\ C9_ValidationPassed
\* A bytes body that decodes, but to text that is no JSON, was rejected and is
\* still the bytes delivered.
C9_Witness ==
    /\ Returned /\ C5_Decodes /\ Len(C5_Text) > 0 /\ ~ParsesAsJSON(C5_Text)
    /\ Local400 /\ calls = <<>> /\ event.body = delivered.body

\* The delivered body is present and neither str nor bytes.
C10_OtherBody ==
    delivered.pytype = "dict"
    /\ delivered.body.type \notin {"absent", "NoneType", "str", "bytes"}
\* C10: a body that is present and neither str nor bytes is not validated: the
\* event goes to the dispatcher unmodified; the handler's own 400 responses
\* answer str and bytes bodies only.
C10_OtherBodiesDelegated ==
    Returned =>
        /\ C10_OtherBody => DispatchedOnceWith(delivered) /\ event = delivered
        /\ Local400 => BodyIs("str") \/ BodyIs("bytes")
\* An already parsed body was dispatched and the dispatcher's response returned.
C10_Witness ==
    /\ Returned /\ BodyIs("dict")
    /\ DispatchedOnceWith(delivered)
    /\ calls[1].result.kind = "return" /\ outcome = calls[1].result

====
